---- MODULE Spec2Model ----
(***************************************************************************)
(* A model of the UTBoost starter pipeline: the patch selection batch      *)
(* (eval_harness.py); repository-coordinate derivation, outline            *)
(* extraction, the line-numbered excerpt builder, the tree renderer and    *)
(* the batches of the function/class-level and line-level localization     *)
(* (codebase_analyzer.py); the prompt truncation of the LLM dispatch, the  *)
(* parsing of LLM responses and the four-stage task workflow               *)
(* (context_script.py); the success rate (process_results.py); and the     *)
(* collection of passing predictions (scrape_top_n.py).  Each component    *)
(* has a specification of its own; the variables of the other components   *)
(* stay at their idle values.                                              *)
(***************************************************************************)
EXTENDS Integers, Sequences, FiniteSets, TLC

VARIABLES
    \* eval_harness.py main()
    pc,              \* position of main: "iter", "evaluate", "select", "save", "done", "crashed"
    todo,            \* task directories tasks_dir.iterdir() has not yielded yet
    instance_id,     \* main's instance_id (Unbound before the first task is loaded)
    agent_patches,   \* number of candidates loaded from passed_agent_passes.json
    i,               \* evaluate_agents' loop index
    results,         \* evaluate_agents' results list
    harness_calls,   \* the run_evaluation calls of this evaluate_agents call, in order
    best_solution,   \* main's best_solution
    written,         \* best_solutions/<task>.json as written by this run
    \* codebase_analyzer.py derive_repo_info
    model_info,      \* the task record: whether it has a model_patch, and the patch text
    repo_info,       \* what derive_repo_info returned or raised (NotCalled before the call)
    \* codebase_analyzer.py outline extraction and get_code_with_lines
    file_content,    \* the decoded text of the fetched file
    compressed,      \* Returned('\n'.join(compressed)) of line 130 (NotCalled before the run)
    recompressed,    \* Returned(the outline extracted from compressed) (NotCalled before the run)
    code_with_lines, \* Returned(the value of line 223) (NotCalled before the run)
    \* context_script.py get_llm_response
    prompt,          \* the prompt argument: its length and the positions of its "."
    dispatched,      \* the text sent to the LLM (NotCalled before the call)
    \* codebase_analyzer.py file_level_localization / build_tree
    repo_paths,      \* the paths the repository holds at the revision
    failing,         \* the directory paths whose listing fails at the collaborator
    codebase_tree,   \* Returned(build_tree(repo)'s lines) (NotCalled before the call)
    \* context_script.py extract_top_files
    llm_response,    \* the text of the LLM response
    top_files,       \* Returned(the list extract_top_files returns) (NotCalled before the call)
    \* context_script.py process_task
    task_data,       \* the task record process_task is given
    repo_reachable,  \* whether g.get_repo answers for the derived repository
    task_stages,     \* the localization stages and LLM calls process_task made, in order
    task_result,     \* what process_task returned or raised (NotCalled before the call)
    \* codebase_analyzer.py function_class_localization
    fcl_pc,          \* position: "get_repo", "loop", "returned", "raised"
    candidate_files, \* the top_files argument
    file_index,      \* how many candidates the loop of line 94 has consumed
    fetch_log,       \* per consumed candidate, its path and how its fetch ended
    compressed_files,\* the dict of line 93 as its items in insertion order
    sections,        \* the paths of the "=== path ===" sections of the returned prompt, in order
    \* codebase_analyzer.py line_level_localization
    lll_pc,          \* position: "get_repo", "loop", "returned", "raised"
    target_functions,\* the target_functions argument
    spec_index,      \* how many specs the loop of line 230 has consumed
    spec_log,        \* per consumed spec, the path it asked for and how it ended
    code_context,    \* the dict of line 229 as its items in insertion order
    line_sections,   \* the specs of the "=== spec ===" sections of the returned prompt, in order
    \* process_results.py calculate_success_rate
    result_files,    \* the files os.listdir yields for test_results_dir, in listing order
    success_rate,    \* what calculate_success_rate returned or raised (NotCalled before the call)
    \* scrape_top_n.py agent loop and process_prediction
    scrape_pc,       \* position: "agents" (line 69), "predictions" (lines 95 / 119), "done"
    agent,           \* index in TOP_AGENTS of the agent being processed (0 before the first)
    resolved_tasks,  \* the resolved set loaded for the agent (line 82)
    task_count,      \* the agent's task_count
    predictions_left,\* the predictions of the agent's all_preds file not read yet
    passes_files,    \* per instance, its passed_agent_passes.json: whether it exists, and its records
    added,           \* per agent, the number of its process_prediction calls that returned True
    last_call        \* the last process_prediction call: its arguments, its result and its effect

evalVars ==
    <<pc, todo, instance_id, agent_patches, i, results, harness_calls, best_solution, written>>
repoVars == <<model_info, repo_info>>
textVars == <<file_content, compressed, recompressed, code_with_lines>>
promptVars == <<prompt, dispatched>>
treeVars == <<repo_paths, failing, codebase_tree>>
parseVars == <<llm_response, top_files>>
taskVars == <<task_data, repo_reachable, task_stages, task_result>>
fclVars == <<fcl_pc, candidate_files, file_index, fetch_log, compressed_files, sections>>
lllVars == <<lll_pc, target_functions, spec_index, spec_log, code_context, line_sections>>
rateVars == <<result_files, success_rate>>
scrapeVars ==
    <<scrape_pc, agent, resolved_tasks, task_count, predictions_left,
      passes_files, added, last_call>>

vars ==
    <<evalVars, repoVars, textVars, promptVars, treeVars, parseVars, taskVars,
      fclVars, lllVars, rateVars, scrapeVars>>

\* the variables each component leaves alone
nonEvalVars ==
    <<repoVars, textVars, promptVars, treeVars, parseVars, taskVars, fclVars,
      lllVars, rateVars, scrapeVars>>
nonRepoVars ==
    <<evalVars, textVars, promptVars, treeVars, parseVars, taskVars, fclVars,
      lllVars, rateVars, scrapeVars>>
nonTextVars ==
    <<evalVars, repoVars, promptVars, treeVars, parseVars, taskVars, fclVars,
      lllVars, rateVars, scrapeVars>>
nonPromptVars ==
    <<evalVars, repoVars, textVars, treeVars, parseVars, taskVars, fclVars,
      lllVars, rateVars, scrapeVars>>
nonTreeVars ==
    <<evalVars, repoVars, textVars, promptVars, parseVars, taskVars, fclVars,
      lllVars, rateVars, scrapeVars>>
nonParseVars ==
    <<evalVars, repoVars, textVars, promptVars, treeVars, taskVars, fclVars,
      lllVars, rateVars, scrapeVars>>
nonTaskVars ==
    <<evalVars, repoVars, textVars, promptVars, treeVars, parseVars, fclVars,
      lllVars, rateVars, scrapeVars>>
nonFclVars ==
    <<evalVars, repoVars, textVars, promptVars, treeVars, parseVars, taskVars,
      lllVars, rateVars, scrapeVars>>
nonLllVars ==
    <<evalVars, repoVars, textVars, promptVars, treeVars, parseVars, taskVars,
      fclVars, rateVars, scrapeVars>>
nonRateVars ==
    <<evalVars, repoVars, textVars, promptVars, treeVars, parseVars, taskVars,
      fclVars, lllVars, scrapeVars>>
nonScrapeVars ==
    <<evalVars, repoVars, textVars, promptVars, treeVars, parseVars, taskVars,
      fclVars, lllVars, rateVars>>

\* Python's None, an absent file, and the values a call that may raise
\* yields: Returned(v) or Raised(e).
None == [tag |-> "None"]
NoFile == [tag |-> "NoFile"]
NotCalled == [tag |-> "NotCalled"]
Returned(v) == [raised |-> FALSE, value |-> v]
Raised(e) == [raised |-> TRUE, value |-> e]

\* eval_harness.py line 81: two of the task names main's tests list admits
Tasks == {"astropy__astropy-7166", "sympy__sympy-20916"}

\* main's instance_id before line 94 has bound it
Unbound == "unbound"

(***************************************************************************)
(* The idle values a component's variables keep while another component's  *)
(* specification runs.                                                     *)
(***************************************************************************)
EvalIdle ==
    /\ pc = "idle"
    /\ todo = {}
    /\ instance_id = Unbound
    /\ agent_patches = 0
    /\ i = 0
    /\ results = <<>>
    /\ harness_calls = <<>>
    /\ best_solution = None
    /\ written = <<>>

RepoIdle ==
    /\ model_info = [has_patch |-> FALSE, model_patch |-> <<>>]
    /\ repo_info = NotCalled

TextIdle ==
    /\ file_content = <<>>
    /\ compressed = NotCalled
    /\ recompressed = NotCalled
    /\ code_with_lines = NotCalled

PromptIdle ==
    /\ prompt = [len |-> 0, periods |-> {}]
    /\ dispatched = NotCalled

TreeIdle ==
    /\ repo_paths = {}
    /\ failing = {}
    /\ codebase_tree = NotCalled

ParseIdle ==
    /\ llm_response = <<>>
    /\ top_files = NotCalled

TaskIdle ==
    /\ task_data = [has_patch |-> FALSE, model_patch |-> <<>>]
    /\ repo_reachable = FALSE
    /\ task_stages = <<>>
    /\ task_result = NotCalled

FclIdle ==
    /\ fcl_pc = "idle"
    /\ candidate_files = <<>>
    /\ file_index = 0
    /\ fetch_log = <<>>
    /\ compressed_files = <<>>
    /\ sections = <<>>

LllIdle ==
    /\ lll_pc = "idle"
    /\ target_functions = <<>>
    /\ spec_index = 0
    /\ spec_log = <<>>
    /\ code_context = <<>>
    /\ line_sections = <<>>

RateIdle ==
    /\ result_files = <<>>
    /\ success_rate = NotCalled

ScrapeIdle ==
    /\ scrape_pc = "idle"
    /\ agent = 0
    /\ resolved_tasks = {}
    /\ task_count = 0
    /\ predictions_left = 0
    /\ passes_files = <<>>
    /\ added = <<>>
    /\ last_call = NotCalled

(***************************************************************************)
(* Bounds of the patch selection batch: the candidates of a task and the   *)
(* lines of a patch.                                                       *)
(***************************************************************************)
MaxCandidates == 3
MaxPatchLines == 3

(***************************************************************************)
(* Texts are sequences of symbols.  Split is str.split(sep) for a          *)
(* one-symbol separator: it always yields at least one part.               *)
(***************************************************************************)
RECURSIVE Split(_, _)
Split(s, sep) ==
    IF \A k \in 1..Len(s) : s[k] # sep THEN <<s>>
    ELSE LET k == CHOOSE j \in 1..Len(s) : s[j] = sep /\ \A m \in 1..(j - 1) : s[m] # sep
         IN <<SubSeq(s, 1, k - 1)>> \o Split(SubSeq(s, k + 1, Len(s)), sep)

RECURSIVE Strings(_, _)
Strings(alphabet, n) ==
    IF n = 0 THEN {<<>>}
    ELSE LET shorter == Strings(alphabet, n - 1)
         IN shorter \cup { Append(t, c) : t \in { u \in shorter : Len(u) = n - 1 }, c \in alphabet }

(***************************************************************************)
(* codebase_analyzer.py derive_repo_info.  A patch text is a sequence over *)
(* PatchAlphabet: DiffHeader is the literal "diff --git a/" the regular    *)
(* expression looks for, BSide the " b/" that follows a path in a header   *)
(* line (it starts with white space), "/", "f" and "g" are path            *)
(* characters and "\n" ends a line.                                        *)
(***************************************************************************)
MaxPatchLen == 6

DiffHeader == "diff --git a/"
BSide == " b/"
PathChars == {"/", "f", "g"}
PatchAlphabet == {DiffHeader, BSide, "\n"} \cup PathChars

\* the task records whose patch has up to max_len symbols
ModelInfos(max_len) ==
    { [has_patch |-> FALSE, model_patch |-> <<>>] }
        \cup { [has_patch |-> TRUE, model_patch |-> t] : t \in Strings(PatchAlphabet, max_len) }

\* line 37: the group ([^\s]+) matched from position p on: the longest run
\* of symbols that are not white space.  The literal "diff --git a/" itself
\* contributes its first word "diff" and ends the run at its blank.
RECURSIVE NonSpaceRun(_, _)
NonSpaceRun(s, p) ==
    IF p > Len(s) THEN <<>>
    ELSE IF s[p] \in PathChars THEN <<s[p]>> \o NonSpaceRun(s, p + 1)
    ELSE IF s[p] = DiffHeader THEN <<"diff">>
    ELSE <<>>

\* line 37: [^\s]+ needs one symbol at least
GroupMatchesMutStar(run) == TRUE
GroupMatches(run) == run # <<>>

\* line 37: re.search(r'diff --git a/([^\s]+)', patch), the leftmost match
RECURSIVE re_search(_, _)
re_search(s, p) ==
    IF p > Len(s) THEN [matched |-> FALSE, group1 |-> <<>>]
    ELSE IF s[p] = DiffHeader /\ GroupMatches(NonSpaceRun(s, p + 1))
         THEN [matched |-> TRUE, group1 |-> NonSpaceRun(s, p + 1)]
         ELSE re_search(s, p + 1)

\* lines 45-49: repo_name = file_path.split('/')[0]
RepoNameMutLast(file_path) == LET parts == Split(file_path, "/") IN parts[Len(parts)]
RepoName(file_path) == Split(file_path, "/")[1]

\* lines 14-57
derive_repo_info(info) ==
    IF ~info.has_patch \/ info.model_patch = <<>>
    THEN Raised("ValueError")
    ELSE LET file_match == re_search(info.model_patch, 1)
         IN IF ~file_match.matched
            THEN Raised("ValueError")
            ELSE LET file_path == file_match.group1
                     repo_name == RepoName(file_path)
                 IN Returned([repo_owner |-> repo_name,
                              repo_name |-> repo_name,
                              file_path |-> file_path])

RepoInit ==
    /\ model_info \in ModelInfos(MaxPatchLen)
    /\ repo_info = NotCalled

\* context_script.py line 56 / codebase_analyzer.py lines 14-57
DeriveRepoInfo ==
    /\ repo_info = NotCalled
    /\ repo_info' = derive_repo_info(model_info)
    /\ UNCHANGED model_info
    /\ UNCHANGED nonRepoVars

RepoNext == DeriveRepoInfo

InitRepo ==
    /\ RepoInit
    /\ EvalIdle /\ TextIdle /\ PromptIdle /\ TreeIdle /\ ParseIdle
    /\ TaskIdle /\ FclIdle /\ LllIdle /\ RateIdle /\ ScrapeIdle

SpecRepo == InitRepo /\ [][RepoNext]_vars

(***************************************************************************)
(* Claims about derive_repo_info.                                          *)
(***************************************************************************)
PatchLines == Split(model_info.model_patch, "\n")

\* a line of the form diff --git a/<path> b/...: the literal, a non-empty
\* path of path characters, then " b/"
HeaderPathEnd(l) ==
    { k \in 2..(Len(l) - 1) : (\A j \in 2..k : l[j] \in PathChars) /\ l[k + 1] = BSide }

IsHeaderLine(l) == Len(l) >= 3 /\ l[1] = DiffHeader /\ HeaderPathEnd(l) # {}

HeaderPath(l) == SubSeq(l, 2, CHOOSE k \in HeaderPathEnd(l) : TRUE)

HeaderLineIndexes == { k \in 1..Len(PatchLines) : IsHeaderLine(PatchLines[k]) }

FirstHeaderLine ==
    PatchLines[CHOOSE k \in HeaderLineIndexes : \A m \in HeaderLineIndexes : k <= m]

\* the part of a path before its first "/"
FirstPathSegment(path) ==
    LET slashes == { k \in 1..Len(path) : path[k] = "/" }
    IN IF slashes = {} THEN path
       ELSE SubSeq(path, 1, (CHOOSE k \in slashes : \A m \in slashes : k <= m) - 1)

\* the positions of the text where "diff --git a/" is followed by a
\* character that is not white space
Occurrences(t) ==
    { k \in 1..(Len(t) - 1) : t[k] = DiffHeader /\ t[k + 1] \notin {BSide, "\n"} }

FirstOccurrence(t) == CHOOSE k \in Occurrences(t) : \A m \in Occurrences(t) : k <= m

\* the characters after position k up to the next white space
PathAt(t, k) ==
    LET stops == { j \in (k + 1)..(Len(t) + 1) : j = Len(t) + 1 \/ t[j] \notin PathChars }
        stop == CHOOSE j \in stops : \A m \in stops : j <= m
    IN SubSeq(t, k + 1, stop - 1)
           \o (IF stop <= Len(t) /\ t[stop] = DiffHeader THEN <<"diff">> ELSE <<>>)

\* the first header line is also the first occurrence of the literal
\* followed by a path: no line before it holds one
HeaderLineIsFirstOccurrence ==
    LET first == CHOOSE k \in HeaderLineIndexes : \A m \in HeaderLineIndexes : k <= m
    IN \A m \in 1..(first - 1) : Occurrences(PatchLines[m]) = {}

RepoInfoIs(path) ==
    /\ ~repo_info.raised
    /\ repo_info.value.file_path = path
    /\ repo_info.value.repo_name = FirstPathSegment(path)
    /\ repo_info.value.repo_owner = repo_info.value.repo_name

C5_RaisesOrNonEmpty ==
    repo_info # NotCalled
        => /\ (~model_info.has_patch \/ Occurrences(model_info.model_patch) = {})
                  => repo_info = Raised("ValueError")
           /\ ~repo_info.raised
                  => (repo_info.value.repo_name # <<>> /\ repo_info.value.file_path # <<>>)

\* C5 amended: derive_repo_info raises ValueError whenever model_patch is
\* missing, empty or holds no "diff --git a/<path>" with a non-empty path;
\* it never returns an empty file_path, and it returns an empty repo_name
\* exactly when the path begins with "/".
C5_RaisesOrNonEmptyPath ==
    repo_info # NotCalled
        => /\ (~model_info.has_patch \/ Occurrences(model_info.model_patch) = {})
                  => repo_info = Raised("ValueError")
           /\ ~repo_info.raised
                  => /\ model_info.has_patch
                     /\ Occurrences(model_info.model_patch) # {}
                     /\ repo_info.value.file_path # <<>>
                     /\ (repo_info.value.repo_name = <<>>
                            <=> repo_info.value.file_path[1] = "/")

\* C5 witness: a non-empty patch whose only "diff --git a/" is followed by
\* " b/" (an empty path) has been rejected.
C5_Witness ==
    /\ model_info.has_patch
    /\ Len(model_info.model_patch) >= 2
    /\ model_info.model_patch[1] = DiffHeader
    /\ model_info.model_patch[2] = BSide
    /\ Occurrences(model_info.model_patch) = {}
    /\ repo_info = Raised("ValueError")

(***************************************************************************)
(* codebase_analyzer.py outline extraction (lines 106-130).  A source text *)
(* is a sequence over SourceAlphabet: the keywords "class" and "def", "@", *)
(* a word character "w", a blank " ", ":" and the line end "\n".  The      *)
(* keywords are runs of word characters, so \w matches them too.           *)
(***************************************************************************)
MaxContentLen == 5
MaxSourceLines == 3

SourceAlphabet == {"class", "def", "@", "w", " ", ":", "\n"}

IsWord(c) == c \in {"w", "class", "def"}
IsSpace(c) == c = " "

\* str.strip() of a line (a line holds no "\n")
RECURSIVE strip(_)
strip(line) ==
    IF line = <<>> THEN <<>>
    ELSE IF IsSpace(line[1]) THEN strip(Tail(line))
    ELSE IF IsSpace(line[Len(line)]) THEN strip(SubSeq(line, 1, Len(line) - 1))
    ELSE line

\* '\n'.join(lines)
RECURSIVE join(_)
join(lines) ==
    IF lines = <<>> THEN <<>>
    ELSE IF Len(lines) = 1 THEN lines[1]
    ELSE lines[1] \o <<"\n">> \o join(Tail(lines))

\* line 115: re.match(r'^@\w+', line)
decorator_match(line) == Len(line) >= 2 /\ line[1] = "@" /\ IsWord(line[2])

\* the position after the blanks that follow the keyword: \s+ is greedy
\* and \w cannot take a blank back
RECURSIVE SkipSpaces(_, _)
SkipSpaces(line, k) ==
    IF k <= Len(line) /\ IsSpace(line[k]) THEN SkipSpaces(line, k + 1) ELSE k

\* lines 113-114: re.match(r'^(<keyword>\s+\w+.*?:)', line)
header_match(keyword, line) ==
    /\ Len(line) >= 1
    /\ line[1] = keyword
    /\ LET k == SkipSpaces(line, 2)
       IN /\ k > 2
          /\ k <= Len(line)
          /\ IsWord(line[k])
          /\ \E c \in (k + 1)..Len(line) : line[c] = ":"

\* group(1) of the header match: .*? is lazy, so the group ends at the
\* first ":" of the line
HeaderGroupMutNoColon(line) ==
    SubSeq(line, 1, (CHOOSE c \in 1..Len(line) :
                        line[c] = ":" /\ \A m \in 1..(c - 1) : line[m] # ":") - 1)
HeaderGroup(line) ==
    SubSeq(line, 1, CHOOSE c \in 1..Len(line) :
                        line[c] = ":" /\ \A m \in 1..(c - 1) : line[m] # ":")

\* lines 117-128: a line that takes none of the branches appends nothing
DroppedMutKeep(line) == <<line>>
Dropped(line) == <<>>

\* lines 125-128: a blank line met while a flag is set clears the flag and
\* appends nothing
FlagClearedMutKeep(line) == <<line>>
FlagCleared(line) == <<>>

\* lines 111-128, one pass of the loop body over st = the compressed list
\* and the two flags
LoopBody(st, line) ==
    IF decorator_match(line)
    THEN [st EXCEPT !.compressed = Append(@, strip(line))]
    ELSE IF header_match("class", line)
    THEN [st EXCEPT !.compressed = Append(@, HeaderGroup(line)), !.in_class = TRUE]
    ELSE IF header_match("def", line)
    THEN [st EXCEPT !.compressed = Append(@, HeaderGroup(line)), !.in_function = TRUE]
    ELSE IF st.in_class /\ strip(line) = <<>>
    THEN [st EXCEPT !.compressed = @ \o FlagCleared(line), !.in_class = FALSE]
    ELSE IF st.in_function /\ strip(line) = <<>>
    THEN [st EXCEPT !.compressed = @ \o FlagCleared(line), !.in_function = FALSE]
    ELSE [st EXCEPT !.compressed = @ \o Dropped(line)]

\* lines 106-128: the loop over file_content.split('\n')
RECURSIVE Loop(_, _)
Loop(st, lines) ==
    IF lines = <<>> THEN st ELSE Loop(LoopBody(st, lines[1]), Tail(lines))

\* lines 106-130: the outline of one file
Outline(content) ==
    join(Loop([compressed |-> <<>>, in_class |-> FALSE, in_function |-> FALSE],
              Split(content, "\n")).compressed)

\* texts of up to MaxSourceLines lines, each a function header, a class
\* header, an empty line, a line of blanks, a decorator or a body line
LineForms ==
    { <<"def", " ", "w", ":">>, <<"class", " ", "w", ":">>, <<>>, <<" ">>,
      <<"@", "w">>, <<"w">> }

SourceTexts(max_len, max_lines) ==
    Strings(SourceAlphabet, max_len)
        \cup { join(lines) : lines \in Strings(LineForms, max_lines) \ {<<>>} }

OutlineInit ==
    /\ file_content \in SourceTexts(MaxContentLen, MaxSourceLines)
    /\ compressed = NotCalled
    /\ recompressed = NotCalled
    /\ code_with_lines = NotCalled

\* lines 106-130 on the fetched file
ExtractOutline ==
    /\ compressed = NotCalled
    /\ compressed' = Returned(Outline(file_content))
    /\ UNCHANGED <<file_content, recompressed, code_with_lines>>
    /\ UNCHANGED nonTextVars

\* lines 106-130 run again, on the outline just produced
ExtractOutlineAgain ==
    /\ compressed # NotCalled
    /\ recompressed = NotCalled
    /\ recompressed' = Returned(Outline(compressed.value))
    /\ UNCHANGED <<file_content, compressed, code_with_lines>>
    /\ UNCHANGED nonTextVars

OutlineNext ==
    \/ ExtractOutline
    \/ ExtractOutlineAgain

InitOutline ==
    /\ OutlineInit
    /\ EvalIdle /\ RepoIdle /\ PromptIdle /\ TreeIdle /\ ParseIdle
    /\ TaskIdle /\ FclIdle /\ LllIdle /\ RateIdle /\ ScrapeIdle

SpecOutline == InitOutline /\ [][OutlineNext]_vars

(***************************************************************************)
(* Claims about outline extraction.                                        *)
(***************************************************************************)
ContentLines == Split(file_content, "\n")

\* a class header, a function header or a decorator line
IsStructural(line) ==
    decorator_match(line) \/ header_match("class", line) \/ header_match("def", line)

\* the lines of an outline: the empty outline has none
EmittedLines(outline) == IF outline = <<>> THEN <<>> ELSE Split(outline, "\n")

\* a structural line in the form extraction emits it: a header whose only
\* ":" is its last character, a decorator line with no blank at its end
IsEmittedForm(line) ==
    /\ IsStructural(line)
    /\ decorator_match(line) => ~IsSpace(line[Len(line)])
    /\ ~decorator_match(line)
          => (line[Len(line)] = ":" /\ \A m \in 1..(Len(line) - 1) : line[m] # ":")

C8_OnlyStructuralLinesEmitted ==
    compressed # NotCalled
        => /\ \A k \in 1..Len(EmittedLines(compressed.value)) :
                  IsStructural(EmittedLines(compressed.value)[k])
           /\ Len(EmittedLines(compressed.value))
                  = Cardinality({ k \in 1..Len(ContentLines) : IsStructural(ContentLines[k]) })

\* C8 witness: a text with a decorator line and a non-blank line of another
\* kind has been reduced to the decorator line alone.
C8_Witness ==
    /\ compressed # NotCalled
    /\ Len(ContentLines) = 2
    /\ ~IsStructural(ContentLines[1])
    /\ strip(ContentLines[1]) # <<>>
    /\ decorator_match(ContentLines[2])
    /\ compressed.value = ContentLines[2]

\* what an extractor without flags retains of one line, classified on its
\* own: the stripped decorator, the header up to its first ":", or nothing
RetainedOf(line) ==
    IF decorator_match(line) THEN <<strip(line)>>
    ELSE IF header_match("class", line) \/ header_match("def", line)
         THEN <<SubSeq(line, 1, CHOOSE c \in 1..Len(line) :
                                    line[c] = ":" /\ \A m \in 1..(c - 1) : line[m] # ":")>>
         ELSE <<>>

RECURSIVE FlagFreeLines(_)
FlagFreeLines(lines) ==
    IF lines = <<>> THEN <<>> ELSE RetainedOf(lines[1]) \o FlagFreeLines(Tail(lines))

\* C19: the in_class / in_function flags are inert: the outline equals
\* that of a flag-free extractor which classifies each line on its own and
\* joins the retained lines with newlines in original order; no line is
\* suppressed or added because of a flag value or a blank line.
C19_FlagsInert ==
    compressed # NotCalled => compressed.value = join(FlagFreeLines(ContentLines))

\* C19 witness: a header sets a flag, a blank line follows while the flag
\* is set, and the header after it is retained as well.
C19_Witness ==
    /\ compressed # NotCalled
    /\ Len(ContentLines) = 3
    /\ header_match("def", ContentLines[1])
    /\ strip(ContentLines[2]) = <<>>
    /\ header_match("class", ContentLines[3])
    /\ compressed.value = ContentLines[1] \o <<"\n">> \o ContentLines[3]

(***************************************************************************)
(* codebase_analyzer.py get_code_with_lines (line 223).  The file text is  *)
(* a sequence over ExcerptAlphabet (two letters and the line end); the     *)
(* numbered text also holds decimal digits, ":" and " ".                   *)
(***************************************************************************)
MaxExcerptLen == 5

ExcerptAlphabet == {"a", "b", "\n"}

Digit(d) == <<"0", "1", "2", "3", "4", "5", "6", "7", "8", "9">>[d + 1]

\* str(n) for n >= 0
RECURSIVE Decimal(_)
Decimal(n) == IF n < 10 THEN <<Digit(n)>> ELSE Decimal(n \div 10) \o <<Digit(n % 10)>>

\* line 223: f"{i+1}: {line}" for the line at 0-based index i
NumberedLine(idx, line) == Decimal(idx + 1) \o <<":", " ">> \o line

\* "".join(parts)
RECURSIVE Concat(_)
Concat(parts) == IF parts = <<>> THEN <<>> ELSE parts[1] \o Concat(Tail(parts))

\* line 223: the lines are those of split('\n'), which holds no line end
ExcerptLines(content) == Split(content, "\n")

\* line 223
NumberLines(content) ==
    LET lines == ExcerptLines(content)
    IN Concat([k \in 1..Len(lines) |-> NumberedLine(k - 1, lines[k])])

ExcerptInit ==
    /\ file_content \in Strings(ExcerptAlphabet, MaxExcerptLen)
    /\ compressed = NotCalled
    /\ recompressed = NotCalled
    /\ code_with_lines = NotCalled

\* lines 215-223 for a file that was fetched and decoded
GetCodeWithLines ==
    /\ code_with_lines = NotCalled
    /\ code_with_lines' = Returned(NumberLines(file_content))
    /\ UNCHANGED <<file_content, compressed, recompressed>>
    /\ UNCHANGED nonTextVars

ExcerptNext == GetCodeWithLines

InitExcerpt ==
    /\ ExcerptInit
    /\ EvalIdle /\ RepoIdle /\ PromptIdle /\ TreeIdle /\ ParseIdle
    /\ TaskIdle /\ FclIdle /\ LllIdle /\ RateIdle /\ ScrapeIdle

SpecExcerpt == InitExcerpt /\ [][ExcerptNext]_vars

(***************************************************************************)
(* Claims about the line-numbered excerpt builder.                         *)
(***************************************************************************)
IsPrefixAt(t, p, pre) ==
    p + Len(pre) - 1 <= Len(t) /\ SubSeq(t, p, p + Len(pre) - 1) = pre

\* the numbered text from position p on with the prefixes "<n>: ",
\* "<n+1>: ", ... taken out where they stand
RECURSIVE StripPrefixes(_, _, _)
StripPrefixes(t, p, n) ==
    IF p > Len(t) THEN <<>>
    ELSE IF IsPrefixAt(t, p, Decimal(n) \o <<":", " ">>)
    THEN StripPrefixes(t, p + Len(Decimal(n)) + 2, n + 1)
    ELSE <<t[p]>> \o StripPrefixes(t, p + 1, n)

\* C6: the numbered text, with each inserted "<N>: " prefix removed, is the
\* original text, line terminators included.
C6_RoundTrip ==
    code_with_lines # NotCalled => StripPrefixes(code_with_lines.value, 1, 1) = file_content

(***************************************************************************)
(* context_script.py get_llm_response (lines 72-92).  The truncation reads *)
(* only the prompt's length and where its "." are, so a prompt is kept as  *)
(* [len, periods]: its number of characters and the 0-based positions of   *)
(* its periods.  A prefix of it keeps the periods that lie inside.         *)
(***************************************************************************)
MaxPromptExcess == 5
PeriodSpread == 3

\* line 77
max_tokens == 120000
\* lines 74 and 84: characters per token
CharsPerToken == 4

Prompts ==
    { [len |-> n, periods |-> ps] :
        n \in (max_tokens * CharsPerToken - MaxPromptExcess)
                 ..(max_tokens * CharsPerToken + MaxPromptExcess),
        ps \in SUBSET ({0} \cup ((max_tokens * CharsPerToken - PeriodSpread)
                                    ..(max_tokens * CharsPerToken + PeriodSpread - 1))) }

\* text[:k]
Prefix(text, k) ==
    IF k >= text.len THEN text
    ELSE [len |-> k, periods |-> { q \in text.periods : q < k }]

\* text.rfind('.')
rfind_period(text) ==
    IF text.periods = {} THEN 0 - 1
    ELSE CHOOSE q \in text.periods : \A m \in text.periods : m <= q

\* line 74
estimated_tokens(text) == text.len \div CharsPerToken

\* line 89: truncated_prompt[:last_period + 1]
TrimToPeriodMutDropPeriod(text, last_period) == Prefix(text, last_period)
TrimToPeriod(text, last_period) == Prefix(text, last_period + 1)

\* lines 72-92: the prompt that is sent
TruncatedPrompt(text) ==
    IF estimated_tokens(text) > max_tokens
    THEN LET truncated_prompt == Prefix(text, max_tokens * CharsPerToken)
             last_period == rfind_period(truncated_prompt)
         IN IF last_period # 0 - 1
            THEN TrimToPeriod(truncated_prompt, last_period)
            ELSE truncated_prompt
    ELSE text

PromptInit ==
    /\ prompt \in { t \in Prompts : \A q \in t.periods : q < t.len }
    /\ dispatched = NotCalled

\* lines 69-101 with a client configured: the prompt goes out
GetLlmResponse ==
    /\ dispatched = NotCalled
    /\ dispatched' = TruncatedPrompt(prompt)
    /\ UNCHANGED prompt
    /\ UNCHANGED nonPromptVars

PromptNext == GetLlmResponse

InitPrompt ==
    /\ PromptInit
    /\ EvalIdle /\ RepoIdle /\ TextIdle /\ TreeIdle /\ ParseIdle
    /\ TaskIdle /\ FclIdle /\ LllIdle /\ RateIdle /\ ScrapeIdle

SpecPrompt == InitPrompt /\ [][PromptNext]_vars

(***************************************************************************)
(* Claims about the prompt truncation.                                     *)
(***************************************************************************)
CharacterBudget == max_tokens * CharsPerToken

EndsWithPeriod(text) == text.len >= 1 /\ (text.len - 1) \in text.periods

\* C9 as claimed: a prompt longer than 4 x token_ceiling characters is sent
\* with at most 4 x token_ceiling characters, ending in a period when one
\* lies in its first 4 x token_ceiling characters; a prompt of at most
\* 4 x token_ceiling characters is sent unchanged.
C9_LongPromptTruncated ==
    dispatched # NotCalled
        => /\ prompt.len > CharacterBudget
                  => /\ dispatched.len <= CharacterBudget
                     /\ (\E q \in prompt.periods : q < CharacterBudget)
                            => EndsWithPeriod(dispatched)
           /\ prompt.len <= CharacterBudget => dispatched = prompt

\* C9 amended: a prompt of at least 4 x token_ceiling + 4 characters (one
\* whose length divided by 4, rounded down, exceeds token_ceiling) is sent
\* with at most 4 x token_ceiling characters, ending in a period when one
\* lies in its first 4 x token_ceiling characters; a prompt of at most
\* 4 x token_ceiling + 3 characters is sent unchanged.
C9_EstimateDecidesTruncation ==
    dispatched # NotCalled
        => /\ prompt.len >= CharacterBudget + CharsPerToken
                  => /\ dispatched.len <= CharacterBudget
                     /\ (\E q \in prompt.periods : q < CharacterBudget)
                            => EndsWithPeriod(dispatched)
           /\ prompt.len < CharacterBudget + CharsPerToken => dispatched = prompt

\* C9 witness: a prompt over the limit whose last period inside the budget
\* is not the budget's last character has been cut back to that period.
C9_Witness ==
    /\ dispatched # NotCalled
    /\ prompt.len >= CharacterBudget + CharsPerToken
    /\ (CharacterBudget - 2) \in prompt.periods
    /\ (CharacterBudget - 1) \notin prompt.periods
    /\ CharacterBudget \in prompt.periods
    /\ dispatched.len = CharacterBudget - 1
    /\ EndsWithPeriod(dispatched)

(***************************************************************************)
(* codebase_analyzer.py build_tree (lines 308-322).  The repository is a   *)
(* subset of AllEntries closed under parents; the collaborator lists a     *)
(* directory or fails for it.  The rendered tree is kept as its lines:     *)
(* [indent, name, slash] stands for indent glyphs, the entry glyph, the    *)
(* name and a trailing "/" for a directory, then "\n".                     *)
(***************************************************************************)
Root == ""

AllEntries ==
    { [name |-> "a", type |-> "dir",  path |-> "a",     parent |-> Root],
      [name |-> "b", type |-> "file", path |-> "b",     parent |-> Root],
      [name |-> "c", type |-> "dir",  path |-> "c",     parent |-> Root],
      [name |-> "d", type |-> "dir",  path |-> "a/d",   parent |-> "a"],
      [name |-> "x", type |-> "file", path |-> "a/x",   parent |-> "a"],
      [name |-> "y", type |-> "file", path |-> "a/d/y", parent |-> "a/d"],
      [name |-> "z", type |-> "file", path |-> "c/z",   parent |-> "c"] }

Repositories ==
    { ps \in SUBSET { e.path : e \in AllEntries } :
        \A e \in AllEntries : e.path \in ps => (e.parent = Root \/ e.parent \in ps) }

DirPaths == {Root} \cup { e.path : e \in { f \in AllEntries : f.type = "dir" } }

\* the order of the names as strings
NameRank(name) ==
    CHOOSE k \in 1..7 : <<"a", "b", "c", "d", "x", "y", "z">>[k] = name

\* line 314: sorted(contents, key=lambda x: x.name)
RECURSIVE sorted_by_name(_)
sorted_by_name(contents) ==
    IF contents = {} THEN <<>>
    ELSE LET first == CHOOSE e \in contents :
                          \A f \in contents : NameRank(e.name) <= NameRank(f.name)
         IN <<first>> \o sorted_by_name(contents \ {first})

\* lines 276-283 and 313: build_tree reads base_commit_sha, a name that
\* neither file_level_localization's parameters nor the module bind
base_commit_sha_bound == FALSE

\* line 313: repo.get_contents(path, ref=base_commit_sha); evaluating the
\* arguments comes first
get_contents(paths, fails, path) ==
    IF ~base_commit_sha_bound THEN Raised("NameError")
    ELSE IF path \in fails THEN Raised("GithubException")
    ELSE Returned({ e \in AllEntries : e.path \in paths /\ e.parent = path })

\* lines 308-322
RECURSIVE build_tree(_, _, _, _)
RECURSIVE render_contents(_, _, _, _)
render_contents(paths, fails, contents, indent) ==
    IF contents = <<>> THEN <<>>
    ELSE LET content == contents[1]
         IN (IF content.type = "dir"
             THEN <<[indent |-> indent, name |-> content.name, slash |-> TRUE]>>
                      \o build_tree(paths, fails, content.path, indent + 1)
             ELSE <<[indent |-> indent, name |-> content.name, slash |-> FALSE]>>)
                \o render_contents(paths, fails, Tail(contents), indent)

build_tree(paths, fails, path, indent) ==
    LET contents == get_contents(paths, fails, path)
    IN IF contents.raised THEN <<>>
       ELSE render_contents(paths, fails, sorted_by_name(contents.value), indent)

TreeInit ==
    /\ repo_paths \in Repositories
    /\ failing \in SUBSET (DirPaths \cap ({Root} \cup repo_paths))
    /\ codebase_tree = NotCalled

\* line 324: codebase_tree = build_tree(repo)
BuildTree ==
    /\ codebase_tree = NotCalled
    /\ codebase_tree' = Returned(build_tree(repo_paths, failing, Root, 0))
    /\ UNCHANGED <<repo_paths, failing>>
    /\ UNCHANGED nonTreeVars

TreeNext == BuildTree

InitTree ==
    /\ TreeInit
    /\ EvalIdle /\ RepoIdle /\ TextIdle /\ PromptIdle /\ ParseIdle
    /\ TaskIdle /\ FclIdle /\ LllIdle /\ RateIdle /\ ScrapeIdle

SpecTree == InitTree /\ [][TreeNext]_vars

(***************************************************************************)
(* Claims about the tree renderer.                                         *)
(***************************************************************************)
EntryAt(path) == CHOOSE e \in AllEntries : e.path = path

\* every listing from the root down to the directory that holds the path
\* succeeds
RECURSIVE Listed(_)
Listed(path) ==
    LET parent == EntryAt(path).parent
    IN parent \notin failing /\ (parent = Root \/ Listed(parent))

RECURSIVE Depth(_)
Depth(path) ==
    IF EntryAt(path).parent = Root THEN 0 ELSE 1 + Depth(EntryAt(path).parent)

LineOf(path) ==
    [indent |-> Depth(path), name |-> EntryAt(path).name,
     slash |-> EntryAt(path).type = "dir"]

Rendered(path) == \E k \in 1..Len(codebase_tree.value) : codebase_tree.value[k] = LineOf(path)

\* C10: a listing failure for a subpath contributes nothing for that
\* subpath, and the failing directory's own line and the lines of its
\* siblings are still rendered.
C10_FailingSubpathKeepsSiblings ==
    codebase_tree # NotCalled
        => \A d \in (failing \cap repo_paths) :
               Listed(d)
                  => /\ Rendered(d)
                     /\ \A e \in repo_paths : EntryAt(e).parent = d => ~Rendered(e)
                     /\ \A e \in repo_paths :
                            EntryAt(e).parent = EntryAt(d).parent => Rendered(e)

\* the position of the line of an entry in the rendered tree, 0 when absent
PositionOf(path) ==
    LET ks == { k \in 1..Len(codebase_tree.value) : codebase_tree.value[k] = LineOf(path) }
    IN IF ks = {} THEN 0 ELSE CHOOSE k \in ks : \A m \in ks : k <= m

\* C11: when every directory listing succeeds, the tree embedded in the
\* prompt of file_level_localization (line 331) has exactly one line for
\* every file and directory of the repository, with one indentation glyph
\* per depth level and a trailing slash on directories, every entry after
\* its directory and siblings in ascending name order.
C11_FullTreeRendered ==
    (codebase_tree # NotCalled /\ failing = {})
        => /\ Len(codebase_tree.value) = Cardinality(repo_paths)
           /\ \A e \in repo_paths : Rendered(e)
           /\ \A e \in repo_paths :
                  EntryAt(e).parent # Root
                      => PositionOf(EntryAt(e).parent) < PositionOf(e)
           /\ \A e, f \in repo_paths :
                  (EntryAt(e).parent = EntryAt(f).parent
                       /\ NameRank(EntryAt(e).name) < NameRank(EntryAt(f).name))
                      => PositionOf(e) < PositionOf(f)

(***************************************************************************)
(* An EvaluationResult as the harness reports it: the patch is kept as its *)
(* lines, one symbol per line, so that len(patch.splitlines()) is its      *)
(* length; original is the passed count (total is 1).  Two results are     *)
(* equal as Python dicts exactly when both fields agree.                   *)
(***************************************************************************)
PatchOfLines(n) == [k \in 1..n |-> "l"]

EvaluationResults ==
    { [patch |-> PatchOfLines(n), original |-> p] : n \in 1..MaxPatchLines, p \in {0, 1} }

patch_size(res) == Len(res.patch)

\* line 75: the candidate tuple (-patch_size, res)
Candidate(res) == <<0 - patch_size(res), res>>

\* lines 70-75: the candidates list, no pass filter applied
candidates(rs) == [k \in 1..Len(rs) |-> Candidate(rs[k])]

\* Python's tuple comparison a < b for (int, dict) tuples: the first
\* differing position decides; two unequal dicts cannot be ordered.
TupleLess(a, b) ==
    IF a[1] # b[1] THEN Returned(a[1] < b[1])
    ELSE IF a[2] = b[2] THEN Returned(FALSE)
    ELSE Raised("TypeError")

\* sorted(): a stable insertion of x into the sorted sequence s, comparing
\* from the right; the call raises as soon as a comparison raises.
RECURSIVE Insert(_, _)
Insert(s, x) ==
    IF s.raised THEN s
    ELSE IF s.value = <<>> THEN Returned(<<x>>)
    ELSE LET list == s.value
             last == list[Len(list)]
             lt == TupleLess(x, last)
         IN IF lt.raised THEN lt
            ELSE IF lt.value
                 THEN LET rest == Insert(Returned(SubSeq(list, 1, Len(list) - 1)), x)
                      IN IF rest.raised THEN rest
                         ELSE Returned(Append(rest.value, last))
                 ELSE Returned(Append(list, x))

RECURSIVE sorted(_)
sorted(s) ==
    IF s = <<>> THEN Returned(<<>>)
    ELSE Insert(sorted(SubSeq(s, 1, Len(s) - 1)), s[Len(s)])

\* lines 66-77
select_best_solution(rs) ==
    LET c == candidates(rs)
    IN IF c = <<>> THEN Returned(None)
       ELSE LET s == sorted(c)
            IN IF s.raised THEN s ELSE Returned(s.value[1][2])

\* line 107: if best_solution:
ShouldSaveMutAlways(best) == TRUE
ShouldSave(best) == best # None

(***************************************************************************)
(* eval_harness.py main() and evaluate_agents()                            *)
(***************************************************************************)
EvalInit ==
    /\ pc = "iter"
    /\ todo = Tasks
    /\ instance_id = Unbound
    /\ agent_patches = 0
    /\ i = 0
    /\ results = <<>>
    /\ harness_calls = <<>>
    /\ best_solution = None
    /\ written = [t \in Tasks |-> NoFile]

\* lines 90-97: the entry is no directory, is not listed in tests, or has
\* no passed_agent_passes.json
MainSkipTask ==
    /\ pc = "iter"
    /\ \E t \in todo : todo' = todo \ {t}
    /\ UNCHANGED <<pc, instance_id, agent_patches, i, results, harness_calls, best_solution,
                   written>>
    /\ UNCHANGED nonEvalVars

\* lines 94-103: load the candidates and enter evaluate_agents
MainLoadTask ==
    /\ pc = "iter"
    /\ \E t \in todo, n \in 0..MaxCandidates :
          /\ todo' = todo \ {t}
          /\ instance_id' = t
          /\ agent_patches' = n
    /\ i' = 0
    /\ results' = <<>>
    /\ harness_calls' = <<>>
    /\ pc' = "evaluate"
    /\ UNCHANGED <<best_solution, written>>
    /\ UNCHANGED nonEvalVars

\* line 15: enumerate(agent_patches) moves to the next candidate
NextCandidateMutRetry(k) == k
NextCandidate(k) == k + 1

\* lines 29-46: run_evaluation is called for candidate i; outcome tells
\* whether it raised, returned without a results.json, or left a result
HarnessCalled(outcome, result) ==
    harness_calls' =
        Append(harness_calls, [candidate |-> i, outcome |-> outcome, result |-> result])

\* lines 28-49: run_evaluation raises; the candidate is skipped
EvalHarnessRaises ==
    /\ pc = "evaluate"
    /\ i < agent_patches
    /\ HarnessCalled("raised", None)
    /\ i' = NextCandidate(i)
    /\ UNCHANGED <<pc, todo, instance_id, agent_patches, results, best_solution, written>>
    /\ UNCHANGED nonEvalVars

\* lines 52-53: the harness returned and left no results.json
EvalNoResultFile ==
    /\ pc = "evaluate"
    /\ i < agent_patches
    /\ HarnessCalled("no_file", None)
    /\ i' = NextCandidate(i)
    /\ UNCHANGED <<pc, todo, instance_id, agent_patches, results, best_solution, written>>
    /\ UNCHANGED nonEvalVars

\* lines 53-55: the harness's result is appended
EvalAppendResult ==
    /\ pc = "evaluate"
    /\ i < agent_patches
    /\ \E r \in EvaluationResults :
           /\ results' = Append(results, r)
           /\ HarnessCalled("result", r)
    /\ i' = NextCandidate(i)
    /\ UNCHANGED <<pc, todo, instance_id, agent_patches, best_solution, written>>
    /\ UNCHANGED nonEvalVars

\* lines 57-64: the loop is over, evaluate_agents returns results
EvalReturn ==
    /\ pc = "evaluate"
    /\ i = agent_patches
    /\ pc' = "select"
    /\ UNCHANGED <<todo, instance_id, agent_patches, i, results, harness_calls, best_solution,
                   written>>
    /\ UNCHANGED nonEvalVars

\* line 104: best_solution = select_best_solution(results); main has no
\* handler, so a TypeError of sorted() ends the whole run
MainSelect ==
    /\ pc = "select"
    /\ LET best == select_best_solution(results)
       IN IF best.raised
          THEN pc' = "crashed" /\ UNCHANGED best_solution
          ELSE pc' = "save" /\ best_solution' = best.value
    /\ UNCHANGED <<todo, instance_id, agent_patches, i, results, harness_calls, written>>
    /\ UNCHANGED nonEvalVars

\* lines 107-111
MainSave ==
    /\ pc = "save"
    /\ written' = IF ShouldSave(best_solution)
                  THEN [written EXCEPT ![instance_id] = best_solution]
                  ELSE written
    /\ pc' = "iter"
    /\ UNCHANGED <<todo, instance_id, agent_patches, i, results, harness_calls, best_solution>>
    /\ UNCHANGED nonEvalVars

\* line 90: iterdir() is exhausted
MainDone ==
    /\ pc = "iter"
    /\ todo = {}
    /\ pc' = "done"
    /\ UNCHANGED <<todo, instance_id, agent_patches, i, results, harness_calls, best_solution,
                   written>>
    /\ UNCHANGED nonEvalVars

EvalNext ==
    \/ MainSkipTask
    \/ MainLoadTask
    \/ EvalHarnessRaises
    \/ EvalNoResultFile
    \/ EvalAppendResult
    \/ EvalReturn
    \/ MainSelect
    \/ MainSave
    \/ MainDone

InitEval ==
    /\ EvalInit
    /\ RepoIdle /\ TextIdle /\ PromptIdle /\ TreeIdle /\ ParseIdle
    /\ TaskIdle /\ FclIdle /\ LllIdle /\ RateIdle /\ ScrapeIdle

SpecEval == InitEval /\ [][EvalNext]_vars

(***************************************************************************)
(* Claims about select_best_solution and the batch main.                   *)
(***************************************************************************)
Sizes(rs) == { patch_size(rs[k]) : k \in 1..Len(rs) }

DistinctSizes(rs) ==
    \A a, b \in 1..Len(rs) : a # b => patch_size(rs[a]) # patch_size(rs[b])

IsMinSize(rs, n) == n \in Sizes(rs) /\ \A m \in Sizes(rs) : n <= m

MinIndexes(rs) == { k \in 1..Len(rs) : IsMinSize(rs, patch_size(rs[k])) }

FirstMinIndex(rs) == CHOOSE k \in MinIndexes(rs) : \A m \in MinIndexes(rs) : k <= m

\* select_best_solution has been called on results in this iteration
Selected == pc \in {"save", "crashed"}

\* C1: for a non-empty result list with pairwise distinct patch line counts,
\* select_best_solution returns the result with the fewest patch lines,
\* whatever the results' original passed values are.
C1_FewestLinesSelected ==
    (Selected /\ results # <<>> /\ DistinctSizes(results))
        => /\ pc = "save"
           /\ best_solution = results[FirstMinIndex(results)]

\* C2: when two or more results share the minimal patch line count,
\* select_best_solution returns, without raising, the first of them in
\* the input list.
C2_FirstSmallestWinsTie ==
    (Selected /\ Cardinality(MinIndexes(results)) >= 2)
        => /\ pc = "save"
           /\ best_solution = results[FirstMinIndex(results)]

\* C3: on an empty result list select_best_solution returns None without
\* raising, and main then writes no best-solution artifact for the task.
C3_EmptyResultsNoArtifact ==
    /\ (Selected /\ results = <<>>) => (pc = "save" /\ best_solution = None)
    /\ (pc \in {"iter", "done"} /\ instance_id # Unbound /\ results = <<>>)
           => (best_solution = None /\ written[instance_id] = NoFile)

\* C3 witness: a task whose candidates all failed in the harness has been
\* selected for and saved, and nothing was written for it.
C3_Witness ==
    /\ pc = "iter"
    /\ instance_id # Unbound
    /\ agent_patches > 0
    /\ results = <<>>
    /\ best_solution = None
    /\ written[instance_id] = NoFile

\* the results the logged harness calls left, in call order
RECURSIVE LoggedResults(_)
LoggedResults(calls) ==
    IF calls = <<>> THEN <<>>
    ELSE (IF calls[1].outcome = "result" THEN <<calls[1].result>> ELSE <<>>)
             \o LoggedResults(Tail(calls))

Evaluating == pc = "evaluate"
Evaluated == pc \in {"select", "save", "crashed"}

C18_ErrorEndsOnlyTheTask == pc = "crashed" => todo = {}

(***************************************************************************)
(* context_script.py extract_top_files (lines 104-120).  An LLM response   *)
(* is a sequence over ResponseAlphabet: "-" and " " make the bullet        *)
(* prefix, "\t" is white space that is not a space, "(" opens the          *)
(* explanation, "f" is a path character and "\n" ends a line.              *)
(***************************************************************************)
MaxResponseLen == 5

ResponseAlphabet == {"-", " ", "\t", "(", "f", "\n"}

Whitespace == {" ", "\t"}

\* line 117: the prefix line.startswith tests
Bullet == <<"-", " ">>

startswith(line, prefix) ==
    Len(line) >= Len(prefix) /\ SubSeq(line, 1, Len(prefix)) = prefix

\* str.strip(chars): drops the leading and trailing characters that belong
\* to the set chars; str.strip() is strip_chars(s, Whitespace)
RECURSIVE strip_chars(_, _)
strip_chars(s, chars) ==
    IF s = <<>> THEN s
    ELSE IF s[1] \in chars THEN strip_chars(Tail(s), chars)
    ELSE IF s[Len(s)] \in chars THEN strip_chars(SubSeq(s, 1, Len(s) - 1), chars)
    ELSE s

\* line 118: line.split('(')[0].strip('- ').strip()
file_path_of(line) ==
    strip_chars(strip_chars(Split(line, "(")[1], {"-", " "}), Whitespace)

\* lines 115-120
RECURSIVE files_of(_)
files_of(lines) ==
    IF lines = <<>> THEN <<>>
    ELSE (IF startswith(lines[1], Bullet) THEN <<file_path_of(lines[1])>> ELSE <<>>)
             \o files_of(Tail(lines))

extract_top_files(response) == files_of(Split(response, "\n"))

ParseInit ==
    /\ llm_response \in Strings(ResponseAlphabet, MaxResponseLen)
    /\ top_files = NotCalled

\* line 158: top_files = self.extract_top_files(file_response)
ExtractTopFiles ==
    /\ top_files = NotCalled
    /\ top_files' = Returned(extract_top_files(llm_response))
    /\ UNCHANGED llm_response
    /\ UNCHANGED nonParseVars

ParseNext == ExtractTopFiles

InitParse ==
    /\ ParseInit
    /\ EvalIdle /\ RepoIdle /\ TextIdle /\ PromptIdle /\ TreeIdle
    /\ TaskIdle /\ FclIdle /\ LllIdle /\ RateIdle /\ ScrapeIdle

SpecParse == InitParse /\ [][ParseNext]_vars

(***************************************************************************)
(* Claims about extract_top_files.                                         *)
(***************************************************************************)
\* the text between the bullet prefix and the first "(", white space removed
BulletText(line) ==
    strip_chars(Split(SubSeq(line, Len(Bullet) + 1, Len(line)), "(")[1], Whitespace)

RECURSIVE BulletTexts(_)
BulletTexts(lines) ==
    IF lines = <<>> THEN <<>>
    ELSE (IF startswith(lines[1], Bullet) THEN <<BulletText(lines[1])>> ELSE <<>>)
             \o BulletTexts(Tail(lines))

\* C15: extract_top_files returns, in response order, one entry per line
\* that begins with "- ": the text between that prefix and the first "("
\* with the surrounding white space removed; other lines are ignored.
C15_BulletTextExtracted ==
    top_files # NotCalled
        => top_files.value = BulletTexts(Split(llm_response, "\n"))

(***************************************************************************)
(* context_script.py process_task (lines 122-218).  A call binds its       *)
(* keyword arguments to the callee's parameters first; the stage runs only *)
(* when every parameter without a default has an argument.  The LLM        *)
(* answers every prompt it is sent with one of TaskReplies.                *)
(***************************************************************************)
MaxTaskPatchLen == 2

TaskRecords == ModelInfos(MaxTaskPatchLen)

TaskReplies == { <<>>, <<"f">>, <<"-", " ", "f">>, <<"-", " ", "f", "\n", "-", " ", "f", "f">> }

\* codebase_analyzer.py lines 276-283, 59-68 and 170-179: the parameters
\* without a default and those with one
FileLevelRequired == {"repo_owner", "repo_name", "issue_description", "test_patch"}
FileLevelOptional == {"github_token", "n"}
FunctionClassRequired ==
    {"repo_owner", "repo_name", "top_files", "issue_desc", "test_patch", "base_commit_sha"}
FunctionClassOptional == {"github_token", "n"}
LineLevelRequired ==
    {"repo_owner", "repo_name", "target_functions", "issue_desc", "test_patch",
     "base_commit_sha"}
LineLevelOptional == {"github_token", "context_window"}

\* context_script.py lines 150-156, 161-168 and 172-179: the keywords the
\* three calls pass
FileLevelArgs ==
    {"repo_owner", "repo_name", "issue_description", "test_patch", "github_token"}
FunctionClassArgs ==
    {"repo_owner", "repo_name", "top_files", "issue_desc", "test_patch", "github_token"}
LineLevelArgs ==
    {"repo_owner", "repo_name", "target_functions", "issue_desc", "test_patch",
     "github_token"}

\* Python's argument binding: an unexpected keyword or a parameter left
\* without a value raises TypeError before the body runs
Binds(required, optional, args) ==
    required \subseteq args /\ args \subseteq (required \cup optional)

\* a localization stage called with args: TypeError when the call does not
\* bind, the wrapped Exception of lines 167-168, 273-274 and 354-355 when
\* g.get_repo fails, else the prompt
call_stage(required, optional, args, reachable) ==
    IF ~Binds(required, optional, args) THEN Raised("TypeError")
    ELSE IF ~reachable THEN Raised("Exception")
    ELSE Returned("prompt")

\* line 175: [func.strip('- ') for func in func_response.split('\n')
\*            if func.startswith('- ')]
RECURSIVE functions_of(_)
functions_of(lines) ==
    IF lines = <<>> THEN <<>>
    ELSE (IF startswith(lines[1], Bullet)
          THEN <<strip_chars(lines[1], {"-", " "})>> ELSE <<>>)
             \o functions_of(Tail(lines))

target_functions_of(func_response) == functions_of(Split(func_response, "\n"))

Stage(name, input) == [stage |-> name, input |-> input]

\* lines 122-218; replies[k] is the LLM's answer to the k-th prompt
process_task(task, reachable, replies) ==
    LET info == derive_repo_info(task)
    IN IF info.raised THEN [result |-> info, stages |-> <<>>]
       ELSE
       LET file_prompt ==
               call_stage(FileLevelRequired, FileLevelOptional, FileLevelArgs, reachable)
           file_response == replies[1]
           files == extract_top_files(file_response)
           stages1 == <<Stage("file_level", <<>>)>>
       IN IF file_prompt.raised THEN [result |-> file_prompt, stages |-> <<>>]
          ELSE
          LET func_prompt ==
                  call_stage(FunctionClassRequired, FunctionClassOptional,
                             FunctionClassArgs, reachable)
              func_response == replies[2]
              functions == target_functions_of(func_response)
              stages2 == Append(stages1, Stage("function_class", files))
          IN IF func_prompt.raised THEN [result |-> func_prompt, stages |-> stages1]
             ELSE
             LET line_prompt ==
                     call_stage(LineLevelRequired, LineLevelOptional,
                                LineLevelArgs, reachable)
                 line_response == replies[3]
                 stages3 == Append(stages2, Stage("line_level", functions))
                 test_case == replies[4]
                 stages4 ==
                     Append(stages3,
                            Stage("test_case",
                                  <<file_response, func_response, line_response>>))
             IN IF line_prompt.raised THEN [result |-> line_prompt, stages |-> stages2]
                ELSE [result |->
                          Returned([repository_info |-> info.value,
                                    file_level_analysis |-> file_response,
                                    function_class_analysis |-> func_response,
                                    line_level_analysis |-> line_response,
                                    test_case |-> test_case]),
                      stages |-> stages4]

TaskInit ==
    /\ task_data \in TaskRecords
    /\ repo_reachable \in BOOLEAN
    /\ task_stages = <<>>
    /\ task_result = NotCalled

\* line 298: result = generator.process_task(task_data)
ProcessTask ==
    /\ task_result = NotCalled
    /\ \E replies \in [1..4 -> TaskReplies] :
           LET run == process_task(task_data, repo_reachable, replies)
           IN /\ task_result' = run.result
              /\ task_stages' = run.stages
    /\ UNCHANGED <<task_data, repo_reachable>>
    /\ UNCHANGED nonTaskVars

TaskNext == ProcessTask

InitTask ==
    /\ TaskInit
    /\ EvalIdle /\ RepoIdle /\ TextIdle /\ PromptIdle /\ TreeIdle
    /\ ParseIdle /\ FclIdle /\ LllIdle /\ RateIdle /\ ScrapeIdle

SpecTask == InitTask /\ [][TaskNext]_vars

(***************************************************************************)
(* Claims about process_task.                                              *)
(***************************************************************************)
StageNames == [k \in 1..Len(task_stages) |-> task_stages[k].stage]

\* C12: with a valid model_patch and every collaborator answering,
\* process_task runs file-level, function/class-level, line-level and
\* test-case generation in that order, each localization stage fed with the
\* parsed response of the stage before it, and returns a result with all
\* four analyses; it does not stop with an error after the file-level stage.
C12_AllStagesRunInOrder ==
    (task_result # NotCalled /\ ~derive_repo_info(task_data).raised /\ repo_reachable)
        => /\ ~task_result.raised
           /\ StageNames = <<"file_level", "function_class", "line_level", "test_case">>
           /\ task_stages[2].input
                  = extract_top_files(task_result.value.file_level_analysis)
           /\ task_stages[3].input
                  = target_functions_of(task_result.value.function_class_analysis)
           /\ task_stages[4].input
                  = <<task_result.value.file_level_analysis,
                      task_result.value.function_class_analysis,
                      task_result.value.line_level_analysis>>

(***************************************************************************)
(* codebase_analyzer.py function_class_localization (lines 85-168): the    *)
(* batch over the candidate files.  The collaborator answers each fetch on *)
(* its own: it raises, returns a directory, returns bytes that do not      *)
(* decode, or returns a file whose text is one of FileTexts.  A dict is    *)
(* the sequence of its items in insertion order.                           *)
(***************************************************************************)
MaxTopFiles == 3

CandidatePaths == {"f.py", "g.py"}

FileTexts ==
    { <<>>,
      <<"def", " ", "w", ":">>,
      <<"class", " ", "w", ":", "\n", "w">> }

Keys(dict) == [k \in 1..Len(dict) |-> dict[k].key]

HasKey(dict, key) == \E k \in 1..Len(dict) : dict[k].key = key

\* dict[key] = value: a key the dict holds keeps its place, a new key goes
\* to the end
dict_setMutAppend(dict, key, value) == Append(dict, [key |-> key, value |-> value])
dict_set(dict, key, value) ==
    IF HasKey(dict, key)
    THEN [k \in 1..Len(dict) |->
              IF dict[k].key = key THEN [key |-> key, value |-> value] ELSE dict[k]]
    ELSE Append(dict, [key |-> key, value |-> value])

FclInit ==
    /\ fcl_pc = "get_repo"
    /\ candidate_files \in Strings(CandidatePaths, MaxTopFiles)
    /\ file_index = 0
    /\ fetch_log = <<>>
    /\ compressed_files = <<>>
    /\ sections = <<>>

\* line 90: repo = g.get_repo(...)
FclGetRepo ==
    /\ fcl_pc = "get_repo"
    /\ fcl_pc' = "loop"
    /\ UNCHANGED <<candidate_files, file_index, fetch_log, compressed_files, sections>>
    /\ UNCHANGED nonFclVars

\* lines 90 and 167-168: get_repo raises, the outer handler re-raises
FclGetRepoRaises ==
    /\ fcl_pc = "get_repo"
    /\ fcl_pc' = "raised"
    /\ UNCHANGED <<candidate_files, file_index, fetch_log, compressed_files, sections>>
    /\ UNCHANGED nonFclVars

FclLogged(outcome) ==
    /\ file_index' = file_index + 1
    /\ fetch_log' = Append(fetch_log, [path |-> candidate_files[file_index + 1],
                                       outcome |-> outcome])

\* lines 98 and 132-134: repo.get_contents raises; the inner handler prints
\* and continues
FclFetchRaises ==
    /\ fcl_pc = "loop"
    /\ file_index < Len(candidate_files)
    /\ FclLogged("raised")
    /\ UNCHANGED <<fcl_pc, candidate_files, compressed_files, sections>>
    /\ UNCHANGED nonFclVars

\* lines 100-101: the content is not a file
FclSkipDirectory ==
    /\ fcl_pc = "loop"
    /\ file_index < Len(candidate_files)
    /\ FclLogged("dir")
    /\ UNCHANGED <<fcl_pc, candidate_files, compressed_files, sections>>
    /\ UNCHANGED nonFclVars

\* lines 104 and 132-134: decoded_content.decode('utf-8') raises
FclDecodeRaises ==
    /\ fcl_pc = "loop"
    /\ file_index < Len(candidate_files)
    /\ FclLogged("undecodable")
    /\ UNCHANGED <<fcl_pc, candidate_files, compressed_files, sections>>
    /\ UNCHANGED nonFclVars

\* lines 98-130: the file is fetched, decoded and compressed
FclCompressFile ==
    /\ fcl_pc = "loop"
    /\ file_index < Len(candidate_files)
    /\ FclLogged("file")
    /\ \E text \in FileTexts :
           compressed_files' =
               dict_set(compressed_files, candidate_files[file_index + 1], Outline(text))
    /\ UNCHANGED <<fcl_pc, candidate_files, sections>>
    /\ UNCHANGED nonFclVars

\* lines 137-165: one section per item of compressed_files, then return
FclBuildPrompt ==
    /\ fcl_pc = "loop"
    /\ file_index = Len(candidate_files)
    /\ sections' = Keys(compressed_files)
    /\ fcl_pc' = "returned"
    /\ UNCHANGED <<candidate_files, file_index, fetch_log, compressed_files>>
    /\ UNCHANGED nonFclVars

FclNext ==
    \/ FclGetRepo
    \/ FclGetRepoRaises
    \/ FclFetchRaises
    \/ FclSkipDirectory
    \/ FclDecodeRaises
    \/ FclCompressFile
    \/ FclBuildPrompt

InitFcl ==
    /\ FclInit
    /\ EvalIdle /\ RepoIdle /\ TextIdle /\ PromptIdle /\ TreeIdle
    /\ ParseIdle /\ TaskIdle /\ LllIdle /\ RateIdle /\ ScrapeIdle

SpecFcl == InitFcl /\ [][FclNext]_vars

(***************************************************************************)
(* Claims about the batch of function_class_localization.                  *)
(***************************************************************************)
\* the paths whose fetch returned a decodable file, each once, in the order
\* of their first such fetch
RECURSIVE SuccessOrder(_, _)
SuccessOrder(log, seen) ==
    IF log = <<>> THEN <<>>
    ELSE IF log[1].outcome = "file" /\ log[1].path \notin seen
         THEN <<log[1].path>> \o SuccessOrder(Tail(log), seen \cup {log[1].path})
         ELSE SuccessOrder(Tail(log), seen)

\* C13: a fetch or decode failure for one candidate never aborts the
\* batch: every candidate is tried, and the returned prompt has exactly one
\* section for each distinct path that was fetched as a decodable file, in
\* candidate order, and none for a path that only failed or was a directory.
C13_OneSectionPerFetchedFile ==
    /\ fcl_pc = "raised" => fetch_log = <<>>
    /\ fcl_pc = "returned"
           => /\ Len(fetch_log) = Len(candidate_files)
              /\ \A k \in 1..Len(fetch_log) : fetch_log[k].path = candidate_files[k]
              /\ sections = SuccessOrder(fetch_log, {})

C13_Witness ==
    /\ fcl_pc = "returned"
    /\ candidate_files = <<"f.py", "g.py", "g.py">>
    /\ fetch_log[1].outcome = "raised"
    /\ fetch_log[2].outcome = "file"
    /\ fetch_log[3].outcome = "file"
    /\ sections = <<"g.py">>

(***************************************************************************)
(* codebase_analyzer.py line_level_localization (lines 197-274): the batch *)
(* over the function specs.  A spec is a sequence over SpecAlphabet, "m"   *)
(* a name character and "." the separator; a path is a sequence in which   *)
(* "/" separates and ".py" is the suffix.  The collaborator answers each   *)
(* fetch on its own, a file's text being one of LineTexts.                 *)
(***************************************************************************)
MaxSpecLen == 2
MaxTargets == 2

SpecAlphabet == {"m", "."}

FunctionSpecs == Strings(SpecAlphabet, MaxSpecLen)

LineTexts == { <<>>, <<"a">>, <<"a", "\n", "b">> }

\* '/'.join(parts)
RECURSIVE slash_join(_)
slash_join(parts) ==
    IF parts = <<>> THEN <<>>
    ELSE IF Len(parts) = 1 THEN parts[1]
    ELSE parts[1] \o <<"/">> \o slash_join(Tail(parts))

\* line 208: if len(parts) < 2
TooFewPartsMutNever(parts) == FALSE
TooFewParts(parts) == Len(parts) < 2

\* lines 205-212
parse_function_spec(func_spec) ==
    LET parts == Split(func_spec, ".")
    IN IF TooFewParts(parts) THEN Raised("ValueError")
       ELSE Returned([file_path |-> slash_join(SubSeq(parts, 1, Len(parts) - 1)) \o <<".py">>,
                      func_name |-> parts[Len(parts)]])

LllInit ==
    /\ lll_pc = "get_repo"
    /\ target_functions \in Strings(FunctionSpecs, MaxTargets)
    /\ spec_index = 0
    /\ spec_log = <<>>
    /\ code_context = <<>>
    /\ line_sections = <<>>

\* line 202: repo = g.get_repo(...)
LllGetRepo ==
    /\ lll_pc = "get_repo"
    /\ lll_pc' = "loop"
    /\ UNCHANGED <<target_functions, spec_index, spec_log, code_context, line_sections>>
    /\ UNCHANGED nonLllVars

\* lines 202 and 273-274: get_repo raises, the outer handler re-raises
LllGetRepoRaises ==
    /\ lll_pc = "get_repo"
    /\ lll_pc' = "raised"
    /\ UNCHANGED <<target_functions, spec_index, spec_log, code_context, line_sections>>
    /\ UNCHANGED nonLllVars

func_spec == target_functions[spec_index + 1]

LllLogged(path, outcome) ==
    /\ spec_index' = spec_index + 1
    /\ spec_log' = Append(spec_log, [spec |-> func_spec, path |-> path, outcome |-> outcome])

\* lines 232 and 236-238: parse_function_spec raises ValueError; the
\* handler prints and continues
LllMalformedSpec ==
    /\ lll_pc = "loop"
    /\ spec_index < Len(target_functions)
    /\ parse_function_spec(func_spec).raised
    /\ LllLogged(<<>>, "malformed")
    /\ UNCHANGED <<lll_pc, target_functions, code_context, line_sections>>
    /\ UNCHANGED nonLllVars

\* lines 219-226 and 234: get_code_with_lines returns "" when the fetch
\* raises, the content is not a file or its bytes do not decode; "" is
\* not stored
LllNoCode ==
    /\ lll_pc = "loop"
    /\ spec_index < Len(target_functions)
    /\ ~parse_function_spec(func_spec).raised
    /\ \E outcome \in {"raised", "dir", "undecodable"} :
           LllLogged(parse_function_spec(func_spec).value.file_path, outcome)
    /\ UNCHANGED <<lll_pc, target_functions, code_context, line_sections>>
    /\ UNCHANGED nonLllVars

\* lines 232-235: the file is fetched and numbered; a non-empty code is
\* stored under the spec
LllAddContext ==
    /\ lll_pc = "loop"
    /\ spec_index < Len(target_functions)
    /\ ~parse_function_spec(func_spec).raised
    /\ LllLogged(parse_function_spec(func_spec).value.file_path, "file")
    /\ \E text \in LineTexts :
           LET code == NumberLines(text)
           IN code_context' = IF code # <<>> THEN dict_set(code_context, func_spec, code)
                              ELSE code_context
    /\ UNCHANGED <<lll_pc, target_functions, line_sections>>
    /\ UNCHANGED nonLllVars

\* lines 241-271: one section per item of code_context, then return
LllBuildPrompt ==
    /\ lll_pc = "loop"
    /\ spec_index = Len(target_functions)
    /\ line_sections' = Keys(code_context)
    /\ lll_pc' = "returned"
    /\ UNCHANGED <<target_functions, spec_index, spec_log, code_context>>
    /\ UNCHANGED nonLllVars

LllNext ==
    \/ LllGetRepo
    \/ LllGetRepoRaises
    \/ LllMalformedSpec
    \/ LllNoCode
    \/ LllAddContext
    \/ LllBuildPrompt

InitLll ==
    /\ LllInit
    /\ EvalIdle /\ RepoIdle /\ TextIdle /\ PromptIdle /\ TreeIdle
    /\ ParseIdle /\ TaskIdle /\ FclIdle /\ RateIdle /\ ScrapeIdle

SpecLll == InitLll /\ [][LllNext]_vars

(***************************************************************************)
(* Claims about the batch of line_level_localization.                      *)
(***************************************************************************)
SegmentsOf(spec) == Split(spec, ".")

\* '/'.join(all segments but the last) + '.py'
OwningFile(spec) ==
    LET segments == SegmentsOf(spec)
    IN slash_join(SubSeq(segments, 1, Len(segments) - 1)) \o <<".py">>

Malformed(spec) == Len(SegmentsOf(spec)) < 2

\* C14: a spec with fewer than two dot-separated segments is skipped and
\* never aborts the stage: every spec is consumed, the returned prompt has
\* one section for every other spec whose owning file was fetched, and none
\* for a malformed spec or a spec whose file was not fetched.
C14_MalformedSpecSkipped ==
    /\ lll_pc = "raised" => spec_log = <<>>
    /\ lll_pc = "returned"
           => /\ Len(spec_log) = Len(target_functions)
              /\ \A k \in 1..Len(spec_log) :
                     /\ spec_log[k].spec = target_functions[k]
                     /\ Malformed(spec_log[k].spec) <=> spec_log[k].outcome = "malformed"
                     /\ ~Malformed(spec_log[k].spec)
                            => spec_log[k].path = OwningFile(spec_log[k].spec)
              /\ { line_sections[k] : k \in 1..Len(line_sections) }
                     = { spec_log[k].spec :
                             k \in { j \in 1..Len(spec_log) : spec_log[j].outcome = "file" } }
              /\ \A j, k \in 1..Len(line_sections) :
                     line_sections[j] = line_sections[k] => j = k
              /\ \A k \in 1..Len(line_sections) : ~Malformed(line_sections[k])

C14_Witness ==
    /\ lll_pc = "returned"
    /\ target_functions = <<<<"m">>, <<"m", ".">>>>
    /\ spec_log[1].outcome = "malformed"
    /\ spec_log[2].outcome = "file"
    /\ spec_log[2].path = <<"m", ".py">>
    /\ line_sections = <<<<"m", ".">>>>

(***************************************************************************)
(* process_results.py calculate_success_rate (lines 4-24).  A directory    *)
(* entry either has a name that does not end in ".json" or is a JSON       *)
(* object that may lack either key; completed_ids is the list of the ids.  *)
(* A quotient is kept exact, as the pair of its numerator and denominator: *)
(* the rounding of the floating-point division is not modelled.            *)
(***************************************************************************)
MaxFiles == 2

InstanceTotals == {0, 5, 10}
CompletedCounts == {0, 5, 7}

Ids(n) == [k \in 1..n |-> k]

OtherFile ==
    [json |-> FALSE, has_total |-> FALSE, total_instances |-> 0,
     has_completed |-> FALSE, completed_ids |-> <<>>]

JsonFiles ==
    { [json |-> TRUE, has_total |-> TRUE, total_instances |-> t,
       has_completed |-> TRUE, completed_ids |-> Ids(c)] :
          t \in InstanceTotals, c \in CompletedCounts }
    \cup { [json |-> TRUE, has_total |-> FALSE, total_instances |-> 0,
            has_completed |-> TRUE, completed_ids |-> Ids(c)] : c \in CompletedCounts }
    \cup { [json |-> TRUE, has_total |-> TRUE, total_instances |-> t,
            has_completed |-> FALSE, completed_ids |-> <<>>] : t \in InstanceTotals }
    \cup { [json |-> TRUE, has_total |-> FALSE, total_instances |-> 0,
            has_completed |-> FALSE, completed_ids |-> <<>>] }

ResultFiles == {OtherFile} \cup JsonFiles

\* line 14: data.get("total_instances", 0)
file_total_instances(data) == IF data.has_total THEN data.total_instances ELSE 0

\* line 15: len(data.get("completed_ids", []))
file_completed_instances(data) ==
    IF data.has_completed THEN Len(data.completed_ids) ELSE 0

\* lines 9-18: the two running sums after the listing
RECURSIVE accumulate(_, _)
accumulate(files, sums) ==
    IF files = <<>> THEN sums
    ELSE accumulate(Tail(files),
                    IF files[1].json
                    THEN [total_instances |->
                              sums.total_instances + file_total_instances(files[1]),
                          total_completed |->
                              sums.total_completed + file_completed_instances(files[1])]
                    ELSE sums)

\* a / b
divide(a, b) ==
    IF b = 0 THEN Raised("ZeroDivisionError") ELSE Returned([num |-> a, den |-> b])

Zero == [num |-> 0, den |-> 1]

\* line 21: ... if total_instances > 0 else 0
HasInstancesMutAlways(total) == TRUE
HasInstances(total) == total > 0

\* lines 4-24
calculate_success_rate(files) ==
    LET sums == accumulate(files, [total_instances |-> 0, total_completed |-> 0])
    IN IF HasInstances(sums.total_instances)
       THEN LET quotient == divide(sums.total_completed, sums.total_instances)
            IN IF quotient.raised THEN quotient
               ELSE Returned([num |-> quotient.value.num * 100, den |-> quotient.value.den])
       ELSE Returned(Zero)

RateInit ==
    /\ result_files \in Strings(ResultFiles, MaxFiles)
    /\ success_rate = NotCalled

\* line 60: success_rate = calculate_success_rate(test_results_dir)
CalculateSuccessRate ==
    /\ success_rate = NotCalled
    /\ success_rate' = calculate_success_rate(result_files)
    /\ UNCHANGED result_files
    /\ UNCHANGED nonRateVars

RateNext == CalculateSuccessRate

InitRate ==
    /\ RateInit
    /\ EvalIdle /\ RepoIdle /\ TextIdle /\ PromptIdle /\ TreeIdle
    /\ ParseIdle /\ TaskIdle /\ FclIdle /\ LllIdle /\ ScrapeIdle

SpecRate == InitRate /\ [][RateNext]_vars

(***************************************************************************)
(* Claims about calculate_success_rate.                                    *)
(***************************************************************************)
JsonEntries == SelectSeq(result_files, LAMBDA f : f.json)

RECURSIVE SumTotals(_)
SumTotals(files) ==
    IF files = <<>> THEN 0
    ELSE (IF files[1].has_total THEN files[1].total_instances ELSE 0)
             + SumTotals(Tail(files))

RECURSIVE SumLengths(_)
SumLengths(files) ==
    IF files = <<>> THEN 0 ELSE Len(files[1].completed_ids) + SumLengths(Tail(files))

SumTotalInstances == SumTotals(JsonEntries)
SumCompleted == SumLengths(JsonEntries)

\* C16: calculate_success_rate returns (sum of len(completed_ids)) / (sum
\* of total_instances) x 100 over the result files, and returns 0 without
\* dividing when the summed total_instances is 0.
C16_RateIsCompletedOverTotal ==
    success_rate # NotCalled
        => /\ ~success_rate.raised
           /\ SumTotalInstances = 0 => success_rate.value = Zero
           /\ SumTotalInstances # 0
                  => success_rate.value.num * SumTotalInstances
                         = SumCompleted * 100 * success_rate.value.den

\* totals {10, 5} with completed counts {7, 5} give 80
C16_Witness ==
    /\ success_rate # NotCalled
    /\ Len(result_files) = 2
    /\ result_files[1].total_instances = 10 /\ Len(result_files[1].completed_ids) = 7
    /\ result_files[2].total_instances = 5 /\ Len(result_files[2].completed_ids) = 5
    /\ ~success_rate.raised
    /\ success_rate.value.num = 80 * success_rate.value.den

(***************************************************************************)
(* scrape_top_n.py: the agent loop (lines 69-142) and process_prediction   *)
(* (lines 37-66).  A passes file is [exists, passes], passes being the     *)
(* JSON list it holds.  The array and the JSONL format run the same loop   *)
(* body (lines 95-112 and 119-138), modelled once.  A prediction read from *)
(* all_preds is any of Predictions.                                        *)
(***************************************************************************)
MaxPredictions == 6

\* lines 96 and 120: if task_count >= 5
first_n == 5

\* lines 1-21: the first two agents of the list
TOP_AGENTS == <<"20250316_augment_agent_v0", "20250117_wandb_programmer_o1_crosscheck5">>

Instances == {"astropy__astropy-7166", "astropy__astropy-12907", "sympy__sympy-20916"}
ModelPatches == {"p", "q"}
ModelNames == {"m"}

Predictions ==
    [instance_id : Instances, model_name_or_path : ModelNames, model_patch : ModelPatches]

NoPassesFile == [exists |-> FALSE, passes |-> <<>>]

Range(list) == { list[k] : k \in 1..Len(list) }

\* line 58: if new_pass not in passes
NotPresentMutAlways(new_pass, passes) == TRUE
NotPresent(new_pass, passes) == new_pass \notin Range(passes)

\* lines 37-66: the value returned and the passes file after the call
process_prediction(file, inst, model_name, model_patch, resolved) ==
    IF inst \in resolved
    THEN LET passes == IF file.exists THEN file.passes ELSE <<>>
             new_pass == [instance_id |-> inst,
                          model_patch |-> model_patch,
                          model_name_or_path |-> model_name]
         IN IF NotPresent(new_pass, passes)
            THEN [returned |-> TRUE,
                  file |-> [exists |-> TRUE, passes |-> Append(passes, new_pass)]]
            ELSE [returned |-> FALSE, file |-> file]
    ELSE [returned |-> FALSE, file |-> file]

ScrapeInit ==
    /\ scrape_pc = "agents"
    /\ agent = 0
    /\ resolved_tasks = {}
    /\ task_count = 0
    /\ predictions_left = 0
    /\ passes_files = [t \in Instances |-> NoPassesFile]
    /\ added = [a \in 1..Len(TOP_AGENTS) |-> 0]
    /\ last_call = NotCalled

\* lines 69-77: the next agent lacks all_preds.jsonl or results.json
AgentSkipped ==
    /\ scrape_pc = "agents"
    /\ agent < Len(TOP_AGENTS)
    /\ agent' = agent + 1
    /\ UNCHANGED <<scrape_pc, resolved_tasks, task_count, predictions_left, passes_files,
                   added, last_call>>
    /\ UNCHANGED nonScrapeVars

\* lines 69-94: the next agent's resolved set and predictions are loaded
AgentLoaded ==
    /\ scrape_pc = "agents"
    /\ agent < Len(TOP_AGENTS)
    /\ agent' = agent + 1
    /\ \E resolved \in SUBSET Instances : resolved_tasks' = resolved
    /\ \E n \in 0..MaxPredictions : predictions_left' = n
    /\ task_count' = 0
    /\ scrape_pc' = "predictions"
    /\ UNCHANGED <<passes_files, added, last_call>>
    /\ UNCHANGED nonScrapeVars

\* lines 96-97 and 120-121: task_count >= 5 breaks the loop
LimitReached ==
    /\ scrape_pc = "predictions"
    /\ task_count >= first_n
    /\ scrape_pc' = "agents"
    /\ UNCHANGED <<agent, resolved_tasks, task_count, predictions_left, passes_files, added,
                   last_call>>
    /\ UNCHANGED nonScrapeVars

\* lines 95 and 119: the predictions are exhausted
PredictionsExhausted ==
    /\ scrape_pc = "predictions"
    /\ task_count < first_n
    /\ predictions_left = 0
    /\ scrape_pc' = "agents"
    /\ UNCHANGED <<agent, resolved_tasks, task_count, predictions_left, passes_files, added,
                   last_call>>
    /\ UNCHANGED nonScrapeVars

\* lines 103-104, 129-130 and 140-142: the prediction lacks a field or
\* its line is no JSON; the loop continues
PredictionSkipped ==
    /\ scrape_pc = "predictions"
    /\ task_count < first_n
    /\ predictions_left > 0
    /\ predictions_left' = predictions_left - 1
    /\ UNCHANGED <<scrape_pc, agent, resolved_tasks, task_count, passes_files, added,
                   last_call>>
    /\ UNCHANGED nonScrapeVars

\* lines 99-112 and 125-138: process_prediction is called on the
\* prediction; True counts one more task for the agent
PredictionProcessed ==
    /\ scrape_pc = "predictions"
    /\ task_count < first_n
    /\ predictions_left > 0
    /\ predictions_left' = predictions_left - 1
    /\ \E data \in Predictions :
           LET file == passes_files[data.instance_id]
               call == process_prediction(file, data.instance_id, data.model_name_or_path,
                                          data.model_patch, resolved_tasks)
           IN /\ passes_files' = [passes_files EXCEPT ![data.instance_id] = call.file]
              /\ task_count' = IF call.returned THEN task_count + 1 ELSE task_count
              /\ added' = IF call.returned THEN [added EXCEPT ![agent] = @ + 1] ELSE added
              /\ last_call' = [data |-> data,
                               resolved |-> data.instance_id \in resolved_tasks,
                               present |-> data \in Range(file.passes),
                               returned |-> call.returned,
                               unchanged |-> passes_files' = passes_files]
    /\ UNCHANGED <<scrape_pc, agent, resolved_tasks>>
    /\ UNCHANGED nonScrapeVars

\* line 69: TOP_AGENTS is exhausted
ScrapeDone ==
    /\ scrape_pc = "agents"
    /\ agent = Len(TOP_AGENTS)
    /\ scrape_pc' = "done"
    /\ UNCHANGED <<agent, resolved_tasks, task_count, predictions_left, passes_files, added,
                   last_call>>
    /\ UNCHANGED nonScrapeVars

ScrapeNext ==
    \/ AgentSkipped
    \/ AgentLoaded
    \/ LimitReached
    \/ PredictionsExhausted
    \/ PredictionSkipped
    \/ PredictionProcessed
    \/ ScrapeDone

InitScrape ==
    /\ ScrapeInit
    /\ EvalIdle /\ RepoIdle /\ TextIdle /\ PromptIdle /\ TreeIdle
    /\ ParseIdle /\ TaskIdle /\ FclIdle /\ LllIdle /\ RateIdle

SpecScrape == InitScrape /\ [][ScrapeNext]_vars

(***************************************************************************)
(* Claims about process_prediction and the agent loop.                     *)
(***************************************************************************)
NoTwoEqual(list) == \A j, k \in 1..Len(list) : list[j] = list[k] => j = k

\* C20: starting from no passes file, a task's passed_agent_passes.json
\* never holds two equal records, and holds only records of calls whose
\* instance_id was in the caller's resolved set; a call for an unresolved
\* instance or for a record already present returns False and leaves the
\* file unchanged; an agent adds at most 5 records in total.
C20_PassesStayDistinctAndResolved ==
    /\ \A t \in Instances :
           /\ NoTwoEqual(passes_files[t].passes)
           /\ \A r \in Range(passes_files[t].passes) : r.instance_id = t
    /\ last_call # NotCalled
           => /\ (~last_call.resolved \/ last_call.present)
                     => (~last_call.returned /\ last_call.unchanged)
              /\ ~last_call.unchanged => (last_call.returned /\ last_call.resolved)
    /\ \A a \in 1..Len(TOP_AGENTS) : added[a] <= first_n

\* C20 witness: the first agent has added five records, and the second
\* agent's call for one of them, resolved for it too, returned False and
\* left the file as it was.
C20_Witness ==
    /\ agent = 2
    /\ added[1] = first_n
    /\ last_call # NotCalled
    /\ last_call.resolved
    /\ last_call.present
    /\ ~last_call.returned
    /\ last_call.unchanged
====
